---------------------------- MODULE Spec2Model ----------------------------
(***************************************************************************)
(* A model of rxd's Dumper (src/src/lib.rs) from Dumper::new on, over any  *)
(* byte source R: Read (main's BufReader<File> among them): the builder-   *)
(* style setters, dump, the read loop of format_contents, one iteration    *)
(* per step, and the printing of the lines, one println! per step.         *)
(* main's command-line parsing and its File::open are not part of it.      *)
(*                                                                         *)
(* Text is modelled as what it is in Rust: a String is a sequence of      *)
(* Unicode scalar values, here a sequence of code points (naturals).      *)
(* A byte is a natural in 0..255.  Option<usize> is <<>> for None and     *)
(* <<n>> for Some(n).  A usize has 64 bits; line_count, the one usize a   *)
(* caller can set to any value, is kept at that width as four 16-bit      *)
(* limbs, and the build's treatment of overflow (a panic with overflow    *)
(* checks, two's-complement wrapping without) is settled at the first     *)
(* overflow of a run and kept from then on.                               *)
(***************************************************************************)
EXTENDS Integers, Sequences, FiniteSets, TLC

VARIABLES
    pc,                 \* "config" | "loop" | "print" | "done" | "panicked"
    panic,              \* the panic that ended the run, "none" if none
    control_pictures,   \* Dumper.control_pictures
    line_count,         \* Dumper.line_count : Option<usize>
    line_width,         \* Dumper.line_width
    byte_group_length,  \* Dumper.byte_group_length
    reader,             \* Dumper.reader: the byte source and its position
    header,             \* dump's two header lines, once built
    lines,              \* format_contents' Vec<String>
    chunk_offset,       \* format_contents' chunk_offset
    out,                \* the output sink: the lines println! has written
    printed,            \* lines of the current dump that println! has written
    overflow_checks,    \* the build's overflow checks: "on" | "off", "either" until observed
    last_op,            \* the most recent call on the Dumper: its argument, and the
                        \* read calls issued and the lines written when it was made
    late,               \* the setter calls the caller still makes once a dump has returned
    dataReads,          \* history: read calls that returned at least one byte
    starts,             \* history: stream position of the first byte of each pushed chunk
    begun,              \* history: per dump begun, where the source stood and how
                        \* many lines the sink held
    dumps               \* the number of dump calls the caller makes

vars == <<pc, panic, control_pictures, line_count, line_width, byte_group_length,
          reader, header, lines, chunk_offset, out, printed, overflow_checks,
          last_op, late, dataReads, starts, begun, dumps>>

---------------------------------------------------------------------------
(* Bounds of the model *)

\* longest finite source, in bytes
MaxLen == 5
\* largest small value handed to line_width / byte_group_length
MaxSmall == 3
\* largest line_count handed to line_count
MaxLineCount == 2
\* largest BufReader capacity tried
MaxCap == 3
\* latest read call (0-based) at which a failing source fails
MaxFail == 2
\* read calls after which an endless, uncapped run is cut off
MaxReads == 4
\* largest line_width / byte_group_length of the formatting specification
MaxFmt == 8
\* dump calls made where dump is called more than once
MaxDumps == 2
\* setter calls made after a dump has returned
MaxLate == 1

(* Program constants *)

DefaultLineWidth == 16
DefaultByteGroupLength == 1
MaxWidth == 256
ControlPicturesBase == 9216

---------------------------------------------------------------------------
(* Text helpers: code points and Rust's format! directives *)

Min(a, b) == IF a <= b THEN a ELSE b

Max(a, b) == IF a >= b THEN a ELSE b

Repeat(c, n) == [i \in 1..n |-> c]

SP == 32
DOT == 46
BAR == 124
DASH == 45
PLUS == 43

\* one lowercase hexadecimal digit
HexChar(d) == IF d < 10 THEN 48 + d ELSE 87 + d

RECURSIVE HexDigits(_)
HexDigits(n) == IF n < 16 THEN <<HexChar(n)>>
                ELSE HexDigits(n \div 16) \o <<HexChar(n % 16)>>

\* {n:0w$x}: lowercase hex, zero-padded to at least w digits
HexPad(n, w) == Repeat(48, Max(0, w - Len(HexDigits(n)))) \o HexDigits(n)

\* {s:<w$}: left-justified, space-padded to at least w characters
PadRight(s, w) == s \o Repeat(SP, Max(0, w - Len(s)))

\* [String]::join(sep): J[lo, hi] is the elements lo..hi of ss with sep between
\* them, put together by halves
Join(ss, sep) ==
    LET n == Len(ss)
        J[lo \in 1..(n + 1), hi \in 0..n] ==
            IF lo > hi THEN <<>>
            ELSE IF lo = hi THEN ss[lo]
            ELSE J[lo, (lo + hi) \div 2] \o sep \o J[(lo + hi) \div 2 + 1, hi]
    IN  J[1, n]

\* slice::chunks(n): runs of n elements, the last one possibly shorter
Chunks(s, n) ==
    [k \in 1..((Len(s) + n - 1) \div n) |-> SubSeq(s, (k - 1) * n + 1, Min(k * n, Len(s)))]

---------------------------------------------------------------------------
(* Line formatting *)

get_line_hex_pad_length ==
    LET group_characters == 2 * byte_group_length + 1
    IN  (group_characters * line_width - 1) \div byte_group_length

line_hex(line_bytes) ==
    LET groups == Chunks(line_bytes, byte_group_length)
    IN  Join([k \in 1..Len(groups) |->
                Join([j \in 1..Len(groups[k]) |-> HexPad(groups[k][j], 2)], <<>>)],
             <<SP>>)

\* ascii_char with `byte <= 0x7f` for `byte < 0x7f`: DEL is shown as itself
ascii_char_shows_del(byte) ==
    IF byte < 32 /\ control_pictures THEN byte + ControlPicturesBase
    ELSE IF byte < 32 THEN DOT
    ELSE IF byte <= 127 THEN byte
    ELSE DOT

ascii_char(byte) ==
    IF byte < 32 /\ control_pictures THEN byte + ControlPicturesBase
    ELSE IF byte < 32 THEN DOT
    ELSE IF byte < 127 THEN byte
    ELSE DOT

line_ascii(line_bytes) == [k \in 1..Len(line_bytes) |-> ascii_char(line_bytes[k])]

\* format_line padding the hex field for the bytes of this chunk, not for line_width
format_line_pad_by_chunk(offset, line_bytes) ==
    LET group_characters == 2 * byte_group_length + 1
        pad_length == (group_characters * Len(line_bytes) - 1) \div byte_group_length
    IN  HexPad(offset, 8) \o <<SP, BAR, SP>>
            \o PadRight(line_hex(line_bytes), pad_length)
            \o <<SP, BAR, SP>> \o line_ascii(line_bytes)

format_line(offset, line_bytes) ==
    HexPad(offset, 8) \o <<SP, BAR, SP>>
        \o PadRight(line_hex(line_bytes), get_line_hex_pad_length)
        \o <<SP, BAR, SP>> \o line_ascii(line_bytes)

(* The header lines of dump *)

byte_offsets ==
    LET n == (line_width + byte_group_length - 1) \div byte_group_length
    IN  Join([k \in 1..n |-> HexPad((k - 1) * byte_group_length, 2)],
             Repeat(SP, byte_group_length * 2 - 1))

byte_offsets_line ==
    Repeat(SP, 9) \o <<BAR, SP>> \o PadRight(byte_offsets, get_line_hex_pad_length)
        \o <<SP, BAR, SP>> \o Repeat(SP, line_width)

separator_line ==
    Repeat(DASH, 9) \o <<PLUS, DASH>> \o Repeat(DASH, get_line_hex_pad_length)
        \o <<DASH, PLUS, DASH>> \o Repeat(DASH, line_width)

---------------------------------------------------------------------------
(* The byte source.  A reader record holds what the source is (kind, data,   *)
(* cap, fail) and where it stands (pos, buf, calls):                         *)
(*   kind  "cursor"    io::Cursor over data, as in the tests                 *)
(*         "bufreader" io::BufReader of capacity cap over data, as in main   *)
(*         "repeat"    an endless source of the byte data[1]                 *)
(*   fail  <<>>, or <<k>>: the read call number k (0-based) returns Err      *)
(*   pos   the position of the source itself (under the BufReader, if any);  *)
(*   buf   the bytes in BufReader's buffer not handed out yet;               *)
(*   at    the position in the source the first byte of buf came from;       *)
(*   calls read calls issued so far.                                         *)

None == <<>>

Some(n) == <<n>>

Data(base, len) == [i \in 1..len |-> (base + i - 1) % 256]

MkReader(kind, data, cap, fail) ==
    [kind |-> kind, data |-> data, cap |-> cap, fail |-> fail,
     pos |-> 0, buf |-> <<>>, at |-> 0, calls |-> 0]

\* Whether the next read call returns Err
read_fails(r) == r.fail = Some(r.calls)

\* Bytes the source has not handed out yet (a "repeat" source never runs out)
remaining(r, want) == IF r.kind = "repeat" THEN want ELSE Len(r.data) - r.pos

\* BufReader::read goes straight to the inner reader when its buffer is empty
\* and the caller's buffer is at least as large as its own
bypass(r, want) == r.buf = <<>> /\ want >= r.cap

\* What BufReader's buffer holds once fill_buf has run
filled(r, want) ==
    IF r.buf = <<>>
    THEN SubSeq(r.data, r.pos + 1, r.pos + Min(r.cap, remaining(r, want)))
    ELSE r.buf

\* The number of bytes a successful read into a buffer of `want` bytes returns
read_length(r, want) ==
    IF r.kind = "bufreader" /\ ~bypass(r, want)
    THEN Min(want, Len(filled(r, want)))
    ELSE Min(want, remaining(r, want))

\* The bytes that read places in the buffer
read_bytes(r, want) ==
    IF r.kind = "repeat" THEN Repeat(r.data[1], want)
    ELSE IF r.kind = "bufreader" /\ ~bypass(r, want)
    THEN SubSeq(filled(r, want), 1, read_length(r, want))
    ELSE SubSeq(r.data, r.pos + 1, r.pos + read_length(r, want))

\* The position in the stream of the next byte a read hands out: that of the
\* first buffered byte, or that of the source when nothing is buffered
stream_position(r) == IF r.buf = <<>> THEN r.pos ELSE r.at

\* The reader after a successful read
read_advance(r, want) ==
    IF r.kind = "bufreader" /\ ~bypass(r, want)
    THEN LET n == read_length(r, want)
             left == SubSeq(filled(r, want), n + 1, Len(filled(r, want)))
         IN  [r EXCEPT !.pos = IF r.buf = <<>> THEN r.pos + Len(filled(r, want)) ELSE r.pos,
                       !.buf = left,
                       !.at = IF left = <<>> THEN 0 ELSE stream_position(r) + n,
                       !.calls = r.calls + 1]
    ELSE [r EXCEPT !.pos = r.pos + read_length(r, want),
                   !.calls = r.calls + 1]

\* Where the source stands: what decides the bytes its coming reads hand out
standing(r) == [pos |-> r.pos, buf |-> r.buf]

---------------------------------------------------------------------------
(* usize.  A usize of the 64-bit targets is four limbs of 16 bits, the least *)
(* significant first.  line_count is held that way; line_width, the lengths  *)
(* and chunk_offset stay far below 2^30 in every state of the model and are  *)
(* plain integers.                                                           *)

Limb == 65536

\* the usize of a small integer n (n < 2^30)
USize(n) == <<n % Limb, n \div Limb, 0, 0>>

\* whether the usize x is below 2^30, and the integer it is then
FitsInt(x) == x[3] = 0 /\ x[4] = 0 /\ x[2] < 16384

ToInt(x) == x[1] + Limb * x[2]

\* x * w on usize, w <= 256: the product modulo 2^64 and whether it overflowed
usize_mul(x, w) ==
    LET p1 == x[1] * w
        p2 == x[2] * w + p1 \div Limb
        p3 == x[3] * w + p2 \div Limb
        p4 == x[4] * w + p3 \div Limb
    IN  [wrapped |-> <<p1 % Limb, p2 % Limb, p3 % Limb, p4 % Limb>>,
         overflow |-> p4 \div Limb > 0]

\* n >= x for a small integer n and a usize x
usize_reached(n, x) == FitsInt(x) /\ n >= ToInt(x)

---------------------------------------------------------------------------
(* Inputs *)

Caps == 2..MaxCap

FiniteSources ==
    {MkReader("cursor", Data(b, len), 0, None) : b \in {30, 126}, len \in 0..MaxLen}
    \cup {MkReader("bufreader", Data(254, len), c, None) : c \in Caps, len \in 0..MaxLen}

EndlessSources == {MkReader("repeat", <<255>>, 0, None)}

FailingSources ==
    {MkReader("cursor", Data(65, MaxLen), 0, Some(k)) : k \in 0..MaxFail}
    \cup {MkReader("repeat", <<0>>, 0, Some(MaxFail))}

Sources == FiniteSources \cup EndlessSources \cup FailingSources

SetterInputs == (0..MaxSmall) \cup {MaxWidth, MaxWidth + 1}

\* 2^63 and 2^63 + 1: line counts whose product with a line_width of 2 or
\* more does not fit a usize
HugeLineCounts == {<<0, 0, 0, 32768>>, <<1, 0, 0, 32768>>}

LineCountInputs ==
    {None} \cup {Some(USize(n)) : n \in 0..MaxLineCount}
           \cup {Some(x) : x \in HugeLineCounts}

---------------------------------------------------------------------------
(* Dumper::new and the setters *)

\* The state in which the Dumper over source r holds the given configuration
\* and nothing has been read or written
configured(r, cp, lc, lw, g) ==
    /\ pc = "config"
    /\ panic = "none"
    /\ control_pictures = cp
    /\ line_count = lc
    /\ line_width = lw
    /\ byte_group_length = g
    /\ reader = r
    /\ header = <<>>
    /\ lines = <<>>
    /\ chunk_offset = 0
    /\ out = <<>>
    /\ printed = 0
    /\ overflow_checks = "either"
    /\ last_op = [op |-> "new", arg |-> 0, calls |-> 0, written |-> 0]
    /\ dataReads = 0
    /\ starts = <<>>
    /\ begun = <<>>

\* Dumper::new(reader): the defaults
Init ==
    /\ \E r \in Sources :
           configured(r, FALSE, None, DefaultLineWidth, DefaultByteGroupLength)
    /\ dumps = 1
    /\ late = 0

\* a call on the Dumper, with the read calls issued and the lines written so far
called(op, arg) ==
    [op |-> op, arg |-> arg, calls |-> reader.calls, written |-> Len(out)]

\* The setters take the Dumper by value and return it: they are called while
\* no dump is running, before the first dump or after a dump has returned
\* (as many times then as the caller has calls left).
idle == pc \in {"config", "done"} /\ (begun = <<>> \/ late > 0)

\* late, once the setter has been called
late_after == IF begun = <<>> THEN late ELSE late - 1

\* A setter leaves the reader and the sink alone.  The lines of a dump that has
\* returned are locals of that dump; the model shows them until the next call.
setter_frame ==
    /\ header' = <<>>
    /\ lines' = <<>>
    /\ chunk_offset' = 0
    /\ dataReads' = 0
    /\ starts' = <<>>
    /\ late' = late_after
    /\ UNCHANGED <<reader, out, printed, overflow_checks, begun, dumps>>

set_control_pictures(b) ==
    /\ idle
    /\ control_pictures' = b
    /\ last_op' = called("control_pictures", 0)
    /\ pc' = "config"
    /\ setter_frame
    /\ UNCHANGED <<panic, line_count, line_width, byte_group_length>>

set_line_count(n) ==
    /\ idle
    /\ line_count' = n
    /\ last_op' = called("line_count", 0)
    /\ pc' = "config"
    /\ setter_frame
    /\ UNCHANGED <<panic, control_pictures, line_width, byte_group_length>>

\* the range check with `>= 256` for `> 256`
line_width_rejected_at_256(w) == w = 0 \/ w >= MaxWidth

line_width_rejected(w) == w = 0 \/ w > MaxWidth

set_line_width(w) ==
    /\ idle
    /\ last_op' = called("line_width", w)
    /\ IF line_width_rejected(w)
       THEN /\ pc' = "panicked"
            /\ panic' = "line width must be in the range 1-256"
            /\ UNCHANGED line_width
       ELSE /\ line_width' = w
            /\ pc' = "config"
            /\ UNCHANGED panic
    /\ setter_frame
    /\ UNCHANGED <<control_pictures, line_count, byte_group_length>>

byte_group_length_rejected(g) == g = 0 \/ g > MaxWidth

set_byte_group_length(g) ==
    /\ idle
    /\ last_op' = called("byte_group_length", g)
    /\ IF byte_group_length_rejected(g)
       THEN /\ pc' = "panicked"
            /\ panic' = "byte group length must be in the range 1-256"
            /\ UNCHANGED byte_group_length
       ELSE /\ byte_group_length' = g
            /\ pc' = "config"
            /\ UNCHANGED panic
    /\ setter_frame
    /\ UNCHANGED <<control_pictures, line_count, line_width>>

---------------------------------------------------------------------------
(* dump: the header, then format_contents, then the printing of every line *)

\* dump with chunk_offset kept from the previous call instead of starting at 0
dump_keeps_offset ==
    /\ pc \in {"config", "done"}
    /\ Len(begun) < dumps
    /\ header' = <<byte_offsets_line, separator_line>>
    /\ lines' = <<>>
    /\ pc' = "loop"
    /\ dataReads' = 0
    /\ starts' = <<>>
    /\ begun' = Append(begun, [source |-> standing(reader), mark |-> Len(out)])
    /\ last_op' = called("dump", 0)
    /\ UNCHANGED <<panic, control_pictures, line_count, line_width, byte_group_length,
                   reader, out, printed, overflow_checks, dumps, late, chunk_offset>>

\* dump up to its call of format_contents, and format_contents up to its loop:
\* on a Dumper just configured, or on one whose earlier dump has returned; the
\* reader is taken as it stands
dump ==
    /\ pc \in {"config", "done"}
    /\ Len(begun) < dumps
    /\ header' = <<byte_offsets_line, separator_line>>
    /\ lines' = <<>>
    /\ chunk_offset' = 0
    /\ pc' = "loop"
    /\ dataReads' = 0
    /\ starts' = <<>>
    /\ begun' = Append(begun, [source |-> standing(reader), mark |-> Len(out)])
    /\ last_op' = called("dump", 0)
    /\ UNCHANGED <<panic, control_pictures, line_count, line_width, byte_group_length,
                   reader, out, printed, overflow_checks, dumps, late>>

\* line_count * self.line_width, on usize
cap_product == usize_mul(line_count[1], line_width)

\* line_count is Some and its product with line_width does not fit a usize
mul_overflows == line_count # None /\ cap_product.overflow

\* the multiplication of this iteration yields a value: there is none to do,
\* it fits, or the build wraps it
mul_returns == ~mul_overflows \/ overflow_checks # "on"

\* what is known of the build once this iteration's multiplication has returned
checks_seen == IF mul_overflows THEN "off" ELSE overflow_checks

\* the cap of the loop: line_count is Some and chunk_offset has reached the
\* product as the multiplication returned it
cap_reached == line_count # None /\ usize_reached(chunk_offset, cap_product.wrapped)

\* the cap, as the multiplication returns it, is one the model can count up to
cap_in_reach == line_count # None /\ FitsInt(cap_product.wrapped)

\* an endless source with no cap in reach is followed for MaxReads read calls only
within_bound == (reader.kind = "repeat" /\ ~cap_in_reach) => reader.calls < MaxReads

\* read_err with the header and the lines formatted so far printed before the panic
read_err_prints_first ==
    /\ pc = "loop"
    /\ reader.fail = <<reader.calls>>
    /\ reader' = [reader EXCEPT !.calls = reader.calls + 1]
    /\ pc' = "panicked"
    /\ panic' = "called Result::unwrap() on an Err value"
    /\ out' = out \o header \o lines
    /\ lines' = <<>>
    /\ UNCHANGED <<control_pictures, line_count, line_width, byte_group_length,
                   header, chunk_offset, printed, overflow_checks, last_op,
                   dataReads, starts, begun, dumps, late>>

\* reader.read(..).unwrap() on an Err: the panic unwinds through dump, which has
\* printed nothing yet; the lines formatted so far are dropped
read_err ==
    /\ pc = "loop"
    /\ read_fails(reader)
    /\ reader' = [reader EXCEPT !.calls = reader.calls + 1]
    /\ pc' = "panicked"
    /\ panic' = "called Result::unwrap() on an Err value"
    /\ lines' = <<>>
    /\ UNCHANGED <<control_pictures, line_count, line_width, byte_group_length,
                   header, chunk_offset, out, printed, overflow_checks, last_op,
                   dataReads, starts, begun, dumps, late>>

\* length == 0: break; format_contents returns and dump goes on to print
read_eof ==
    /\ pc = "loop"
    /\ ~read_fails(reader)
    /\ read_length(reader, line_width) = 0
    /\ reader' = read_advance(reader, line_width)
    /\ pc' = "print"
    /\ printed' = 0
    /\ UNCHANGED <<panic, control_pictures, line_count, line_width, byte_group_length,
                   header, lines, chunk_offset, out, overflow_checks, last_op,
                   dataReads, starts, begun, dumps, late>>

\* length > 0 and line_count * line_width overflows in a build with overflow
\* checks: the panic unwinds through dump, which has printed nothing yet
mul_overflow ==
    /\ pc = "loop"
    /\ ~read_fails(reader)
    /\ read_length(reader, line_width) > 0
    /\ mul_overflows
    /\ overflow_checks # "off"
    /\ overflow_checks' = "on"
    /\ reader' = read_advance(reader, line_width)
    /\ dataReads' = dataReads + 1
    /\ pc' = "panicked"
    /\ panic' = "attempt to multiply with overflow"
    /\ lines' = <<>>
    /\ UNCHANGED <<control_pictures, line_count, line_width, byte_group_length,
                   header, chunk_offset, out, printed, last_op, starts, begun, dumps, late>>

\* cap_break with `continue` for `break`: the loop goes on reading
cap_break_continues ==
    /\ pc = "loop"
    /\ ~read_fails(reader)
    /\ read_length(reader, line_width) > 0
    /\ mul_returns
    /\ cap_reached
    /\ overflow_checks' = checks_seen
    /\ reader' = read_advance(reader, line_width)
    /\ dataReads' = dataReads + 1
    /\ UNCHANGED <<pc, panic, control_pictures, line_count, line_width, byte_group_length,
                   header, lines, chunk_offset, out, printed, last_op, starts, begun, dumps, late>>

\* length > 0 and the cap is reached: break, the bytes just read are not shown;
\* format_contents returns and dump goes on to print
cap_break ==
    /\ pc = "loop"
    /\ ~read_fails(reader)
    /\ read_length(reader, line_width) > 0
    /\ mul_returns
    /\ cap_reached
    /\ overflow_checks' = checks_seen
    /\ reader' = read_advance(reader, line_width)
    /\ dataReads' = dataReads + 1
    /\ pc' = "print"
    /\ printed' = 0
    /\ UNCHANGED <<panic, control_pictures, line_count, line_width, byte_group_length,
                   header, lines, chunk_offset, out, last_op, starts, begun, dumps, late>>

\* push_line with chunk_offset advanced before the line is formatted
push_line_offset_first ==
    /\ pc = "loop"
    /\ within_bound
    /\ ~read_fails(reader)
    /\ read_length(reader, line_width) > 0
    /\ mul_returns
    /\ ~cap_reached
    /\ overflow_checks' = checks_seen
    /\ reader' = read_advance(reader, line_width)
    /\ dataReads' = dataReads + 1
    /\ starts' = Append(starts, stream_position(reader))
    /\ chunk_offset' = chunk_offset + line_width
    /\ lines' = Append(lines, format_line(chunk_offset', read_bytes(reader, line_width)))
    /\ UNCHANGED <<pc, panic, control_pictures, line_count, line_width,
                   byte_group_length, header, out, printed, last_op, begun, dumps, late>>

\* length > 0 and no cap reached: format the chunk, advance chunk_offset
push_line ==
    /\ pc = "loop"
    /\ within_bound
    /\ ~read_fails(reader)
    /\ read_length(reader, line_width) > 0
    /\ mul_returns
    /\ ~cap_reached
    /\ overflow_checks' = checks_seen
    /\ reader' = read_advance(reader, line_width)
    /\ dataReads' = dataReads + 1
    /\ starts' = Append(starts, stream_position(reader))
    /\ lines' = Append(lines, format_line(chunk_offset, read_bytes(reader, line_width)))
    /\ chunk_offset' = chunk_offset + line_width
    /\ UNCHANGED <<pc, panic, control_pictures, line_count, line_width,
                   byte_group_length, header, out, printed, last_op, begun, dumps, late>>

\* dump's Vec once format_contents has returned: the header, then the data lines
to_print == header \o lines

\* println!("{line}") of the next line, written by the sink; dump returns after
\* the last one
print_line ==
    /\ pc = "print"
    /\ out' = Append(out, to_print[printed + 1])
    /\ printed' = printed + 1
    /\ pc' = IF printed + 1 = Len(to_print) THEN "done" ELSE "print"
    /\ UNCHANGED <<panic, control_pictures, line_count, line_width, byte_group_length,
                   reader, header, lines, chunk_offset, overflow_checks, last_op,
                   dataReads, starts, begun, dumps, late>>

\* println!("{line}") of the next line, refused by the sink (a closed pipe, a
\* full device): println! panics, the lines written before it stay written
print_fails ==
    /\ pc = "print"
    /\ pc' = "panicked"
    /\ panic' = "failed printing to stdout"
    /\ UNCHANGED <<control_pictures, line_count, line_width, byte_group_length,
                   reader, header, lines, chunk_offset, out, printed, overflow_checks,
                   last_op, dataReads, starts, begun, dumps, late>>

Next ==
    \/ \E b \in BOOLEAN : set_control_pictures(b)
    \/ \E n \in LineCountInputs : set_line_count(n)
    \/ \E w \in SetterInputs : set_line_width(w)
    \/ \E g \in SetterInputs : set_byte_group_length(g)
    \/ dump
    \/ read_err
    \/ read_eof
    \/ mul_overflow
    \/ cap_break
    \/ push_line
    \/ print_line
    \/ print_fails

Spec == Init /\ [][Next]_vars

---------------------------------------------------------------------------
(* Setters called after a dump: the caller keeps the Dumper, and calls       *)
(* setters on it again once its dump has returned.                           *)

LateSources ==
    {MkReader("cursor", Data(30, MaxLen), 0, None),
     MkReader("bufreader", Data(254, MaxLen), MaxCap, None),
     MkReader("cursor", Data(65, MaxLen), 0, Some(MaxFail))}
    \cup EndlessSources

InitLate ==
    /\ \E r \in LateSources :
           configured(r, FALSE, None, DefaultLineWidth, DefaultByteGroupLength)
    /\ dumps = 1
    /\ late = MaxLate

SpecLate == InitLate /\ [][Next]_vars

---------------------------------------------------------------------------
(* The read loop under the scheduling the code has: a sequential loop whose   *)
(* every read call returns, so an enabled iteration is eventually taken.      *)

loop_step == read_err \/ read_eof \/ mul_overflow \/ cap_break \/ push_line

\* every kind of source, under every small line_width and every line_count
\* (the loop's control flow reads no other option)
InitLive ==
    /\ \E r \in Sources, lc \in LineCountInputs, lw \in 1..MaxSmall :
           configured(r, FALSE, lc, lw, DefaultByteGroupLength)
    /\ dumps = 1
    /\ late = 0

NextLive ==
    \/ dump
    \/ read_err
    \/ read_eof
    \/ mul_overflow
    \/ cap_break
    \/ push_line
    \/ print_line
    \/ print_fails

LiveSpec == InitLive /\ [][NextLive]_vars /\ WF_vars(loop_step)

---------------------------------------------------------------------------
(* Formatting, as a function of the configuration and the bytes: the Dumper   *)
(* starts in a valid configuration (one the setters accept) over a Cursor.    *)

FmtWidths == 1..MaxFmt

EdgeWidths == {MaxWidth - 1, MaxWidth}

InitFmt ==
    /\ dumps = 1
    /\ late = 0
    /\ \/ \E lw \in FmtWidths, g \in FmtWidths, cp \in BOOLEAN, len \in 0..(2 * MaxFmt + 1) :
             configured(MkReader("cursor", Data(250, len), 0, None), cp, None, lw, g)
       \/ \E b \in 0..255, len \in 1..2, cp \in BOOLEAN :
             configured(MkReader("cursor", Data(b, len), 0, None), cp, None,
                        DefaultLineWidth, DefaultByteGroupLength)
       \/ \E lw \in EdgeWidths, g \in EdgeWidths, len \in {1, MaxWidth, MaxWidth + 1} :
             configured(MkReader("cursor", Data(0, len), 0, None), FALSE, None, lw, g)

NextFmt == dump \/ read_eof \/ push_line \/ print_line \/ print_fails

SpecFmt == InitFmt /\ [][NextFmt]_vars

---------------------------------------------------------------------------
(* Dumping more than once.  dump takes &mut self and may be called again;   *)
(* between two dumps the caller leaves the source as it stands, seeks it     *)
(* back to its start (a source it shares with the Dumper, as R = &File or    *)
(* BufReader<&File>), or builds a new Dumper over the same bytes.            *)

\* the caller seeks the source back to its start; what a BufReader above it
\* has buffered stays buffered
rewind_source ==
    /\ pc = "done"
    /\ Len(begun) < dumps
    /\ reader.kind # "repeat"
    /\ reader' = [reader EXCEPT !.pos = 0]
    /\ UNCHANGED <<pc, panic, control_pictures, line_count, line_width,
                   byte_group_length, header, lines, chunk_offset, out, printed,
                   overflow_checks, last_op, dataReads, starts, begun, dumps, late>>

\* the caller builds a new Dumper over a new reader of the same bytes and
\* gives it the same configuration
new_again ==
    /\ pc = "done"
    /\ Len(begun) < dumps
    /\ reader' = MkReader(reader.kind, reader.data, reader.cap, reader.fail)
    /\ pc' = "config"
    /\ last_op' = [op |-> "new", arg |-> 0, calls |-> 0, written |-> Len(out)]
    /\ UNCHANGED <<panic, control_pictures, line_count, line_width, byte_group_length,
                   header, lines, chunk_offset, out, printed, overflow_checks,
                   dataReads, starts, begun, dumps, late>>

InitTwice ==
    /\ \E r \in FiniteSources \cup EndlessSources, cp \in BOOLEAN, lc \in LineCountInputs,
          lw \in 1..MaxSmall, g \in 1..MaxSmall :
           configured(r, cp, lc, lw, g)
    /\ dumps = MaxDumps
    /\ late = 0

NextTwice ==
    \/ dump
    \/ read_eof
    \/ mul_overflow
    \/ cap_break
    \/ push_line
    \/ print_line
    \/ print_fails
    \/ rewind_source
    \/ new_again

SpecTwice == InitTwice /\ [][NextTwice]_vars

---------------------------------------------------------------------------
(* Reading a rendered line back: the three fields of                         *)
(* "<offset> | <hex field> | <ascii field>" by their columns, and the bytes  *)
(* a hex field spells.                                                       *)

\* the stated width of the hex field
HexFieldWidth == ((2 * byte_group_length + 1) * line_width - 1) \div byte_group_length

OffsetField(line) == SubSeq(line, 1, 8)

HexField(line) == SubSeq(line, 12, 11 + HexFieldWidth)

\* the three characters between the hex field and the ASCII field
SecondSeparator(line) == SubSeq(line, 12 + HexFieldWidth, 14 + HexFieldWidth)

AsciiField(line) == SubSeq(line, 15 + HexFieldWidth, Len(line))

HexValue(c) == IF c >= 97 THEN c - 87 ELSE c - 48

IsHexChar(c) == c # SP

\* the bytes spelled by a hex field: its digits, spaces dropped, two per byte
ParseHex(field) ==
    LET digits == SelectSeq(field, IsHexChar)
    IN  [k \in 1..(Len(digits) \div 2) |->
            16 * HexValue(digits[2 * k - 1]) + HexValue(digits[2 * k])]

\* bytes k*w+1 .. min((k+1)*w, Len(data)) of data: the k-th (0-based) chunk
ChunkOf(data, w, k) == SubSeq(data, k * w + 1, Min((k + 1) * w, Len(data)))

CeilDiv(a, b) == (a + b - 1) \div b

ReadPanic == "called Result::unwrap() on an Err value"

OverflowPanic == "attempt to multiply with overflow"

PrintPanic == "failed printing to stdout"

Capped == line_count # None

\* the N of line_count = Some(N), a usize, against a small integer n
AtMostN(n) == ~FitsInt(line_count[1]) \/ n <= ToInt(line_count[1])

ExactlyN(n) == FitsInt(line_count[1]) /\ n = ToInt(line_count[1])

\* format_contents has returned its lines to dump
Returned == pc \in {"print", "done"}

\* the sources whose every read fills the buffer until the data runs out
FullReads == reader.kind \in {"cursor", "repeat"}

---------------------------------------------------------------------------
(* C1 *)

\* C1: with line_count = Some(N), the number of read calls that return data
\* never exceeds N: the loop stops before reading beyond N * line_width bytes.
\* The code reads first and tests the cap afterwards, so this is violated.
C1_NoReadBeyondCap == Capped => AtMostN(dataReads)

---------------------------------------------------------------------------
(* C2 *)

\* C2 as stated: after a read error that follows k successful reads, the two
\* header lines and the k data lines are in the output sink.
C2_PartialOutputVisible ==
    panic = ReadPanic =>
        /\ Len(out) = 2 + dataReads
        /\ SubSeq(out, 1, 2) = header

\* C2 as amended: after a read error that follows k successful reads, nothing
\* has been written to the output sink (dump prints only after format_contents
\* has returned); the failing read is the last read call issued, and the failure
\* reaches the caller as a panic.
C2_ReadErrorPrintsNothing ==
    panic = ReadPanic =>
        /\ pc = "panicked"
        /\ out = <<>>
        /\ Len(header) = 2
        /\ reader.fail = Some(dataReads)
        /\ reader.calls = dataReads + 1

C2_Witness == panic = ReadPanic /\ dataReads = 2 /\ reader.calls = 3

---------------------------------------------------------------------------
(* C3 *)

\* C3: the offset field of every data line is the stream position of the first
\* byte shown on it, and consecutive lines cover the stream without gaps, for
\* every source, one whose reads come back short before the end included.
\* The code advances chunk_offset by line_width whatever the read returned, so
\* this is violated after a short read.
C3_OffsetIsStreamPosition ==
    \A k \in 1..Len(lines) :
        /\ OffsetField(lines[k]) = HexPad(starts[k], 8)
        /\ k < Len(lines) => starts[k + 1] = starts[k] + Len(AsciiField(lines[k]))

---------------------------------------------------------------------------
(* C4 *)

\* the source holds N chunks or more
HasChunks ==
    \/ reader.kind = "repeat"
    \/ usize_reached(CeilDiv(Len(reader.data), line_width), line_count[1])

\* the bytes of chunk k (0-based) of the source, read in full chunks
SourceChunk(k) ==
    IF reader.kind = "repeat" THEN Repeat(reader.data[1], line_width)
    ELSE ChunkOf(reader.data, line_width, k)

\* C4: with line_count = Some(N) there are never more than N data lines; with
\* Some(0) dump prints the two header lines only; and when the source holds N
\* chunks, exactly the first N are output, at offsets 0, line_width, ...,
\* (N-1) * line_width.
\* The code compares chunk_offset with line_count * line_width computed on
\* usize: when the product does not fit, a build that wraps stops at the
\* wrapped product, short of N lines, so this is violated.
C4_LineCountCaps ==
    Capped =>
        /\ AtMostN(Len(lines))
        /\ (pc = "done" /\ line_count = Some(USize(0))) => (Len(out) = 2 /\ out = header)
        /\ \A k \in 1..Len(lines) :
               OffsetField(lines[k]) = HexPad((k - 1) * line_width, 8)
        /\ (Returned /\ FullReads /\ HasChunks) =>
               /\ ExactlyN(Len(lines))
               /\ \A k \in 1..Len(lines) :
                      ParseHex(HexField(lines[k])) = SourceChunk(k - 1)

---------------------------------------------------------------------------
(* C5 *)

Accepted(v) == v \in 1..256

ConfigPanics == {"line width must be in the range 1-256",
                 "byte group length must be in the range 1-256"}

Setters == {"control_pictures", "line_count", "line_width", "byte_group_length"}

\* what a call of line_width or byte_group_length does with its argument
SettersStore ==
    /\ Accepted(line_width)
    /\ Accepted(byte_group_length)
    /\ last_op.op = "line_width" =>
           IF Accepted(last_op.arg)
           THEN line_width = last_op.arg /\ pc = "config" /\ panic = "none"
           ELSE pc = "panicked" /\ panic = "line width must be in the range 1-256"
    /\ last_op.op = "byte_group_length" =>
           IF Accepted(last_op.arg)
           THEN byte_group_length = last_op.arg /\ pc = "config" /\ panic = "none"
           ELSE pc = "panicked" /\ panic = "byte group length must be in the range 1-256"

\* C5 as stated: line_width and byte_group_length reject 0 and values above
\* 256 and accept and store every other value; the stored values are always
\* in 1..=256; and when a value is rejected no read of the source has
\* occurred and no output line has been produced.
C5_RejectedBeforeAnyRead ==
    /\ SettersStore
    /\ panic \in ConfigPanics =>
           /\ pc = "panicked"
           /\ reader.calls = 0
           /\ out = <<>>

\* C5 as amended: line_width and byte_group_length reject 0 and values above
\* 256 and accept and store every other value; the stored values are always
\* in 1..=256; a setter call, accepting or rejecting, reads nothing and writes
\* nothing, and after a rejection nothing is read or written any more; a
\* rejection before the first dump finds no read issued and no line written,
\* one after a dump has returned finds that dump's reads and lines.
C5_SettersValidate ==
    /\ SettersStore
    /\ last_op.op \in Setters =>
           /\ reader.calls = last_op.calls
           /\ Len(out) = last_op.written
           /\ lines = <<>>
    /\ panic \in ConfigPanics =>
           /\ pc = "panicked"
           /\ last_op.op \in {"line_width", "byte_group_length"}
           /\ begun = <<>> => (reader.calls = 0 /\ out = <<>>)

C5_Witness ==
    /\ pc = "panicked"
    /\ last_op.op = "line_width"
    /\ last_op.arg = 0
    /\ Len(begun) = 1
    /\ reader.calls = 3
    /\ Len(out) = 4
    /\ byte_group_length = 256

---------------------------------------------------------------------------
(* C6 *)

\* C6: every data line, the final short one included, and both header lines
\* have a hex field of exactly HexFieldWidth characters: each line is as long
\* as the offset column, the two separators, HexFieldWidth and its ASCII field
\* together, the second separator stands right after column 11 + HexFieldWidth,
\* and the hex field of a data line spells exactly the bytes of its chunk (the
\* grouped hex text and the header's legend fit in the field).
C6_HexFieldWidth ==
    /\ Len(header) = 2 =>
           /\ Len(header[1]) = 14 + HexFieldWidth + line_width
           /\ Len(header[2]) = 14 + HexFieldWidth + line_width
           /\ SecondSeparator(header[1]) = <<SP, BAR, SP>>
           /\ SecondSeparator(header[2]) = <<DASH, PLUS, DASH>>
           /\ \A i \in 1..HexFieldWidth : HexField(header[1])[i] # BAR
    /\ \A k \in 1..Len(lines) :
           LET chunk == ChunkOf(reader.data, line_width, k - 1)
           IN  /\ Len(lines[k]) = 14 + HexFieldWidth + Len(chunk)
               /\ SecondSeparator(lines[k]) = <<SP, BAR, SP>>
               /\ ParseHex(HexField(lines[k])) = chunk

C6_Witness ==
    /\ pc = "done"
    /\ line_width = 5
    /\ byte_group_length = 3
    /\ Len(reader.data) = 12
    /\ Len(lines) = 3
    /\ Len(lines[3]) = 14 + 11 + 2

---------------------------------------------------------------------------
(* C7 *)

\* C7: with no line_count, a source of L bytes read in full chunks yields
\* ceil(L / line_width) data lines, line k (0-based) at offset k * line_width
\* with bytes k * line_width .. min((k+1) * line_width, L) - 1 in order.
C7_ChunksOfFullReads ==
    (Returned /\ line_count = None /\ reader.kind = "cursor") =>
        /\ Len(lines) = CeilDiv(Len(reader.data), line_width)
        /\ \A k \in 1..Len(lines) :
               LET chunk == ChunkOf(reader.data, line_width, k - 1)
               IN  /\ OffsetField(lines[k]) = HexPad((k - 1) * line_width, 8)
                   /\ ParseHex(HexField(lines[k])) = chunk
                   /\ Len(AsciiField(lines[k])) = Len(chunk)

C7_Witness ==
    /\ pc = "done"
    /\ line_count = None
    /\ reader.kind = "cursor"
    /\ Len(reader.data) = 5
    /\ line_width = 2
    /\ Len(lines) = 3
    /\ Len(AsciiField(lines[3])) = 1

---------------------------------------------------------------------------
(* C8 *)

\* the character the ASCII field is to show for a byte
ExpectedChar(b) ==
    IF b < 32 THEN (IF control_pictures THEN 9216 + b ELSE 46)
    ELSE IF b < 127 THEN b
    ELSE 46

\* C8: the ASCII field of a data line has one character per byte of the chunk,
\* in order and unpadded: the Control Pictures glyph byte + 0x2400 for a byte
\* below 0x20 with control_pictures on, '.' for it with control_pictures off,
\* the byte's own character for 0x20..0x7e, and '.' from 0x7f on.
C8_AsciiField ==
    \A k \in 1..Len(lines) :
        LET chunk == ChunkOf(reader.data, line_width, k - 1)
            ascii == AsciiField(lines[k])
        IN  /\ Len(ascii) = Len(chunk)
            /\ \A j \in 1..Len(chunk) : ascii[j] = ExpectedChar(chunk[j])

C8_Witness ==
    /\ pc = "done"
    /\ control_pictures
    /\ reader.data = <<31, 32>>
    /\ AsciiField(lines[1]) = <<9247, 32>>

---------------------------------------------------------------------------
(* C9 *)

\* the lines the i-th dump has written
Output(i) ==
    SubSeq(out, begun[i].mark + 1,
           IF i < Len(begun) THEN begun[i + 1].mark ELSE Len(out))

\* C9: formatting the same byte source with the same configuration twice
\* writes the same header and data lines both times: any two dumps that found
\* the source standing alike (at the same position, with the same bytes
\* buffered) have written the same lines.
C9_SameOutputTwice ==
    pc = "done" =>
        \A i, j \in 1..Len(begun) :
            begun[i].source = begun[j].source => Output(i) = Output(j)

C9_Witness ==
    /\ pc = "done"
    /\ Len(begun) = 2
    /\ begun[1].source = begun[2].source
    /\ reader.kind = "bufreader"
    /\ line_count = None
    /\ Len(lines) = 3
    /\ Len(out) = 10
    /\ last_op.op = "dump"

---------------------------------------------------------------------------
(* C10 *)

\* the read loop has ended: format_contents has returned or panicked
Terminal == pc \in {"print", "done", "panicked"}

\* C10: the read loop ends whenever the source is finite or a line_count is
\* set: a finite source ends it at its first zero-length read, a cap of N ends
\* it after at most N + 1 read calls even on an endless source, and an endless
\* source with no cap never lets it return.  (The run to a cap of 2^30 lines or
\* more on an endless source is not followed to its end; its read calls are
\* counted against N + 1 as far as it is followed.)
C10_LoopTerminates ==
    /\ [](Capped => AtMostN(reader.calls - 1))
    /\ []((reader.kind # "repeat" /\ reader.fail = None) =>
             /\ reader.calls - dataReads <= 1
             /\ reader.calls - dataReads = 1 => Terminal)
    /\ []((reader.kind = "repeat" /\ ~Capped) => ~Returned)
    /\ ((pc = "loop" /\ (reader.kind # "repeat" \/ cap_in_reach)) ~> Terminal)

C10_Witness ==
    /\ pc = "print"
    /\ reader.kind = "repeat"
    /\ reader.fail = None
    /\ line_count = Some(USize(2))
    /\ reader.calls = 3
    /\ Len(lines) = 2

=============================================================================
